---- MODULE Spec2Model ----
(***************************************************************************)
(* SearchInProject (Sublime Text plugin): the search-engine adapter        *)
(* (searchengines/base.py, class Base) and the window command that drives  *)
(* it (search_in_project.py, class SearchInProjectCommand).                *)
(*                                                                         *)
(* A Python str is modelled as a sequence of one-character strings, so     *)
(* that prefix tests, splitting, trimming and the line pattern are         *)
(* computed character by character.  A raised exception is a record        *)
(* [kind |-> "raise", exc, msg]; a normal return is [kind |-> "ok", ...].  *)
(***************************************************************************)
EXTENDS Integers, Sequences, FiniteSets, TLC

VARIABLES
    results,                     \* SearchInProjectCommand.results
    last_search_string,          \* SearchInProjectCommand.last_search_string
    last_selected_result_index,  \* SearchInProjectCommand.last_selected_result_index
    common_path,                 \* SearchInProjectCommand.common_path
    engine,                      \* the Base instance: its three settings
    panel,                       \* the quick panel: [open, items, selected]
    dialog,                      \* the last dialog shown: [kind, text]
    listing,                     \* arguments of the last search_in_project_results command
    opened,                      \* index handed to the last open_and_highlight_file
    escaped,                     \* an exception left a command handler
    call,                        \* a direct call of an engine method: its arguments
    ret,                         \* what that call returned or raised
    pc                           \* "ui" | "call" | "done"

vars == <<results, last_search_string, last_selected_result_index, common_path,
          engine, panel, dialog, listing, opened, escaped, call, ret, pc>>

uiVars == <<results, last_search_string, last_selected_result_index, common_path,
            panel, dialog, listing, opened, escaped>>

(***************************************************************************)
(* Bounds of the model.                                                    *)
(***************************************************************************)
MaxFolders == 3      \* folders in one search
MaxDepth == 2        \* components of a folder path
MaxLines == 2        \* lines of tool output in a direct engine call
MaxOptLen == 3       \* characters of an options string or a query
MaxResults == 3      \* match lines of a search made through the window command

(***************************************************************************)
(* Characters and their order (code points), as Python compares str.       *)
(***************************************************************************)
ord(c) ==
    CASE c = "\n" -> 10
      [] c = " "  -> 32
      [] c = "\"" -> 34
      [] c = "-"  -> 45
      [] c = "."  -> 46
      [] c = "/"  -> 47
      [] c = "1"  -> 49
      [] c = "2"  -> 50
      [] c = ":"  -> 58
      [] c = "a"  -> 97
      [] c = "b"  -> 98
      [] c = "x"  -> 120
      [] OTHER    -> 255     \* "#": a byte that is not valid UTF-8

RECURSIVE str_lt(_, _)
str_lt(s, t) ==
    IF t = <<>> THEN FALSE
    ELSE IF s = <<>> THEN TRUE
    ELSE IF s[1] # t[1] THEN ord(s[1]) < ord(t[1])
    ELSE str_lt(Tail(s), Tail(t))

\* list.__lt__ on lists of str
RECURSIVE list_lt(_, _)
list_lt(a, b) ==
    IF b = <<>> THEN FALSE
    ELSE IF a = <<>> THEN TRUE
    ELSE IF a[1] # b[1] THEN str_lt(a[1], b[1])
    ELSE list_lt(Tail(a), Tail(b))

startswith(s, p) == Len(p) <= Len(s) /\ SubSeq(s, 1, Len(p)) = p

RECURSIVE split_from(_, _, _, _)
split_from(s, d, i, cur) ==
    IF i > Len(s) THEN <<cur>>
    ELSE IF s[i] = d THEN <<cur>> \o split_from(s, d, i + 1, <<>>)
    ELSE split_from(s, d, i + 1, Append(cur, s[i]))

\* str.split(d)
split(s, d) == split_from(s, d, 1, <<>>)

\* d.join(parts)
RECURSIVE join(_, _)
join(d, parts) ==
    IF parts = <<>> THEN <<>>
    ELSE IF Len(parts) = 1 THEN parts[1]
    ELSE parts[1] \o <<d>> \o join(d, Tail(parts))

RECURSIVE insert_sorted(_, _)
insert_sorted(x, s) ==
    IF s = <<>> THEN <<x>>
    ELSE IF str_lt(x, s[1]) THEN <<x>> \o s
    ELSE <<s[1]>> \o insert_sorted(x, Tail(s))

\* sorted(folders)
RECURSIVE sorted(_)
sorted(s) == IF s = <<>> THEN <<>> ELSE insert_sorted(s[Len(s)], sorted(SubSeq(s, 1, Len(s) - 1)))

Raise(exc, msg) == [kind |-> "raise", value |-> <<>>, exc |-> exc, msg |-> msg]
Ok(v) == [kind |-> "ok", value |-> v, exc |-> "", msg |-> <<>>]

(***************************************************************************)
(* Base.commonpath                                                         *)
(***************************************************************************)
sep == "/"
curdir == "."

\* [c for c in s if c and c != curdir]
RECURSIVE drop_empty_and_curdir(_)
drop_empty_and_curdir(s) ==
    IF s = <<>> THEN <<>>
    ELSE IF s[1] # <<>> /\ s[1] # <<curdir>>
         THEN <<s[1]>> \o drop_empty_and_curdir(Tail(s))
         ELSE drop_empty_and_curdir(Tail(s))

list_min(S) == CHOOSE x \in S : \A y \in S : ~list_lt(y, x)
list_max(S) == CHOOSE x \in S : \A y \in S : ~list_lt(x, y)

\* the loop with the slice taken one component too far: s1[:i + 1]
RECURSIVE common_loop_off_by_one(_, _, _)
common_loop_off_by_one(s1, s2, i) ==
    IF i > Len(s1) THEN Ok(s1)
    ELSE IF i > Len(s2) THEN Raise("IndexError", <<"list index out of range">>)
    ELSE IF s1[i] # s2[i] THEN Ok(SubSeq(s1, 1, i))
    ELSE common_loop_off_by_one(s1, s2, i + 1)

\* the loop over enumerate(s1): the components of s1 up to the first one
\* that differs from s2's; all of s1 when none differs
RECURSIVE common_loop(_, _, _)
common_loop(s1, s2, i) ==
    IF i > Len(s1) THEN Ok(s1)
    ELSE IF i > Len(s2) THEN Raise("IndexError", <<"list index out of range">>)
    ELSE IF s1[i] # s2[i] THEN Ok(SubSeq(s1, 1, i - 1))
    ELSE common_loop(s1, s2, i + 1)

commonpath(paths) ==
    IF paths = <<>>
    THEN Raise("ValueError", <<"commonpath() arg is an empty sequence">>)
    ELSE
      LET isabs_set   == {SubSeq(paths[i], 1, 1) = <<sep>> : i \in 1..Len(paths)}
          split_paths == {drop_empty_and_curdir(split(paths[i], sep)) : i \in 1..Len(paths)}
          s1          == list_min(split_paths)
          s2          == list_max(split_paths)
          common      == common_loop(s1, s2, 1)
          prefix      == IF TRUE \in isabs_set THEN <<sep>> ELSE <<>>
      IN  IF Cardinality(isabs_set) # 1
          THEN Raise("ValueError", <<"Can't mix absolute and relative paths">>)
          ELSE IF common.kind = "raise" THEN common
          ELSE Ok(prefix \o join(sep, common.value))

(***************************************************************************)
(* Base._remove_subfolders                                                 *)
(***************************************************************************)
\* one iteration of the loop body
keep_folder(unique_folders, folder) ==
    IF Len(unique_folders) = 0 \/ ~startswith(folder, unique_folders[Len(unique_folders)])
    THEN Append(unique_folders, folder)
    ELSE unique_folders

RECURSIVE remove_loop(_, _)
remove_loop(unique_folders, rest) ==
    IF rest = <<>> THEN unique_folders
    ELSE remove_loop(keep_folder(unique_folders, rest[1]), Tail(rest))

\* the loop run over the folders as given, without sorted()
_remove_subfolders_unsorted(folders) == remove_loop(<<>>, folders)

_remove_subfolders(folders) == remove_loop(<<>>, sorted(folders))

(***************************************************************************)
(* shlex.split (POSIX mode, whitespace_split): words are separated by      *)
(* unquoted whitespace, a double quote opens and closes a quoted part of   *)
(* a word, and an unclosed quote raises ValueError.                        *)
(***************************************************************************)
is_space(c) == c \in {" ", "\n"}

RECURSIVE shlex_scan(_, _, _, _, _, _)
shlex_scan(s, i, state, token, quoted, out) ==
    IF i > Len(s)
    THEN IF state = "quote" THEN Raise("ValueError", <<"No closing quotation">>)
         ELSE IF state = "word" /\ (token # <<>> \/ quoted) THEN Ok(Append(out, token))
         ELSE Ok(out)
    ELSE
      LET c == s[i]
      IN  IF state = "space"
          THEN IF is_space(c) THEN shlex_scan(s, i + 1, "space", <<>>, FALSE, out)
               ELSE IF c = "\"" THEN shlex_scan(s, i + 1, "quote", <<>>, TRUE, out)
               ELSE shlex_scan(s, i + 1, "word", <<c>>, FALSE, out)
          ELSE IF state = "quote"
          THEN IF c = "\"" THEN shlex_scan(s, i + 1, "word", token, TRUE, out)
               ELSE shlex_scan(s, i + 1, "quote", Append(token, c), TRUE, out)
          ELSE \* in a word
               IF is_space(c)
               THEN IF token # <<>> \/ quoted
                    THEN shlex_scan(s, i + 1, "space", <<>>, FALSE, Append(out, token))
                    ELSE shlex_scan(s, i + 1, "space", <<>>, FALSE, out)
               ELSE IF c = "\"" THEN shlex_scan(s, i + 1, "quote", token, quoted, out)
               ELSE shlex_scan(s, i + 1, "word", Append(token, c), quoted, out)

shlex_split(s) == shlex_scan(s, 1, "space", <<>>, FALSE, <<>>)

(***************************************************************************)
(* Base._arguments                                                         *)
(***************************************************************************)
\* the query tokenized like the options
_arguments_split_query(query, folders, eng) ==
    LET mandatory == shlex_split(eng.mandatory_options)
        common    == shlex_split(eng.common_options)
        words     == shlex_split(query)
    IN  IF mandatory.kind = "raise" THEN mandatory
        ELSE IF common.kind = "raise" THEN common
        ELSE IF words.kind = "raise" THEN words
        ELSE Ok(<<eng.path_to_executable>> \o mandatory.value \o common.value
                \o words.value \o folders)

_arguments(query, folders, eng) ==
    LET mandatory == shlex_split(eng.mandatory_options)
        common    == shlex_split(eng.common_options)
    IN  IF mandatory.kind = "raise" THEN mandatory
        ELSE IF common.kind = "raise" THEN common
        ELSE Ok(<<eng.path_to_executable>> \o mandatory.value \o common.value
                \o <<query>> \o folders)

(***************************************************************************)
(* Base._sanitize_output: bytes.decode('utf-8', 'ignore').strip()          *)
(***************************************************************************)
\* decode('utf-8', 'ignore'): bytes that are not valid UTF-8 are dropped
decode_ignore(bytes) == SelectSeq(bytes, LAMBDA c : c # "#")

RECURSIVE lstrip(_)
lstrip(s) == IF s # <<>> /\ is_space(s[1]) THEN lstrip(Tail(s)) ELSE s

RECURSIVE rstrip(_)
rstrip(s) ==
    IF s # <<>> /\ is_space(s[Len(s)]) THEN rstrip(SubSeq(s, 1, Len(s) - 1)) ELSE s

strip(s) == rstrip(lstrip(s))

_sanitize_output(output) == strip(decode_ignore(output))

(***************************************************************************)
(* Base.PARSER_RE: three groups separated by colons.  Group 1 is the file  *)
(* path: a start (a word character, a colon and one of \ | /, or a single  *)
(* slash) followed by one or more characters other than a colon.  Group 2  *)
(* is one or more digits and colons.  Group 3 is the rest of the line.     *)
(***************************************************************************)
is_digit(c) == c \in {"1", "2"}
is_word(c) == c \in {"1", "2", "a", "b", "x"}

\* (?:\w\:[\\|/]|\/): how many characters the path's start takes; 0: no match
prefix_len(line) ==
    IF Len(line) >= 3 /\ is_word(line[1]) /\ line[2] = ":" /\ line[3] \in {"\\", "|", "/"}
    THEN 3
    ELSE IF Len(line) >= 1 /\ line[1] = "/" THEN 1 ELSE 0

\* the pattern with a location that ends at the first colon after it
findall_first_colon(line) ==
    LET p      == prefix_len(line)
        colons == {i \in (p + 1)..Len(line) : line[i] = ":"}
        c1     == CHOOSE i \in colons : \A j \in colons : i <= j
        later  == {k \in (c1 + 2)..Len(line) : line[k] = ":"}
        k2     == CHOOSE k \in later : \A j \in later : k <= j
    IN  IF p = 0 \/ colons = {} THEN <<>>
        ELSE IF c1 < p + 2 THEN <<>>
        ELSE IF later = {} THEN <<>>
        ELSE IF \E j \in (c1 + 1)..(k2 - 1) : ~is_digit(line[j]) THEN <<>>
        ELSE << <<SubSeq(line, 1, c1 - 1),
                  SubSeq(line, c1 + 1, k2 - 1),
                  SubSeq(line, k2 + 1, Len(line))>> >>

\* PARSER_RE.findall(line): the list of group tuples, empty when no match.
\* [^:]+ ends at the first colon after the path's start; [\d:]+ is greedy,
\* so the colon that ends it is the last colon of the run of digits and
\* colons that follows.
findall(line) ==
    LET p      == prefix_len(line)
        colons == {i \in (p + 1)..Len(line) : line[i] = ":"}
        c1     == CHOOSE i \in colons : \A j \in colons : i <= j
        run_end == CHOOSE e \in c1..Len(line) :
                      /\ \A j \in (c1 + 1)..e : is_digit(line[j]) \/ line[j] = ":"
                      /\ e = Len(line) \/ ~(is_digit(line[e + 1]) \/ line[e + 1] = ":")
        ends   == {k \in (c1 + 2)..run_end : line[k] = ":"}
        k2     == CHOOSE k \in ends : \A j \in ends : j <= k
    IN  IF p = 0 \/ colons = {} THEN <<>>
        ELSE IF c1 < p + 2 THEN <<>>
        ELSE IF ends = {} THEN <<>>
        ELSE << <<SubSeq(line, 1, c1 - 1),
                  SubSeq(line, c1 + 1, k2 - 1),
                  SubSeq(line, k2 + 1, Len(line))>> >>

(***************************************************************************)
(* Base._parse_output                                                      *)
(***************************************************************************)
\* [Base.PARSER_RE.findall(line)[0] for line in lines]
RECURSIVE line_parts(_)
line_parts(lines) ==
    IF lines = <<>> THEN Ok(<<>>)
    ELSE LET found == findall(lines[1])
         IN  IF found = <<>> THEN Raise("IndexError", <<"list index out of range">>)
             ELSE LET rest == line_parts(Tail(lines))
                  IN  IF rest.kind = "raise" THEN rest
                      ELSE Ok(<<found[1]>> \o rest.value)

_parse_output(output) == line_parts(split(output, "\n"))

(***************************************************************************)
(* Base._is_search_error: the comparison returncode != 0 is evaluated and  *)
(* dropped; the method has no return statement and returns None.           *)
(***************************************************************************)
_is_search_error(returncode, output, error) == FALSE

(***************************************************************************)
(* Base.run.  proc is the external process: [launch, returncode, output,   *)
(* error].  The result carries what was handed to subprocess.Popen.        *)
(***************************************************************************)
NoPopen == [spawned |-> FALSE, argv |-> <<>>, cwd |-> <<>>]

WithPopen(r, popen) ==
    [kind |-> r.kind, value |-> r.value, exc |-> r.exc, msg |-> r.msg, popen |-> popen]

run(query, folders, proc, eng) ==
    LET arguments == _arguments(query, _remove_subfolders(folders), eng)
        cwd       == commonpath(folders)
        popen     == [spawned |-> TRUE, argv |-> arguments.value, cwd |-> cwd.value]
    IN  IF arguments.kind = "raise" THEN WithPopen(arguments, NoPopen)
        ELSE IF cwd.kind = "raise" THEN WithPopen(cwd, NoPopen)
        ELSE IF proc.launch = "oserror"
        THEN WithPopen(Raise("RuntimeError",
                             <<"Could not find executable ">> \o eng.path_to_executable),
                       NoPopen)
        ELSE IF _is_search_error(proc.returncode, proc.output, proc.error)
        THEN WithPopen(Raise("RuntimeError", _sanitize_output(proc.error)), popen)
        ELSE WithPopen(_parse_output(_sanitize_output(proc.output)), popen)

(***************************************************************************)
(* SearchInProjectCommand.  A match record is the 3-tuple that             *)
(* _parse_output returns; the entry appended for the quick panel is a      *)
(* plain string, modelled as a 1-tuple holding it.                         *)
(***************************************************************************)
Placeholder == <<"List results in view">>

NoDialog == [kind |-> "none", exc |-> "", text |-> <<>>]
NoReport == [query |-> <<>>, line_count |-> 0, file_count |-> 0, file_results |-> {}]
NoListing == [shown |-> FALSE, query |-> <<>>, results |-> <<>>, common_path |-> <<>>,
              report |-> NoReport]
ClosedPanel == [open |-> FALSE, items |-> <<>>, selected |-> 0]
NoCall == [fn |-> "none"]
NoRet == [kind |-> "none"]
NotOpened == [called |-> FALSE, file_no |-> 0, transient |-> FALSE]

\* str.replace: every double quote removed
without_quotes(s) == SelectSeq(s, LAMBDA c : c # "\"")

\* sublime.error_message("%s running search engine %s:" % (...) + "\n" + str(e))
error_text(exc, msg, eng) == <<exc, " running search engine ", eng.name, ":", "\n">> \o msg

\* the character U+0060, three of which open the entry appended for the
\* quick panel; a string of this language cannot hold the character itself
grave == "U+0060"

\* result[i] as format_results reads it: the item of a match record or, of
\* the appended entry, which is a str, its character (i is 0, 1 or 2, and the
\* entry starts with three grave accents)
subscript(result, i) == IF result = Placeholder THEN <<grave>> ELSE result[i + 1]

\* os.path.join of two paths
path_join(a, b) ==
    IF startswith(b, <<sep>>) THEN b
    ELSE IF a = <<>> \/ a[Len(a)] = sep THEN a \o b
    ELSE a \o <<sep>> \o b

\* the loop of os.path.normpath over the components of an absolute path
RECURSIVE norm_loop(_, _)
norm_loop(comps, new_comps) ==
    IF comps = <<>> THEN new_comps
    ELSE LET comp == Head(comps)
         IN  IF comp = <<>> \/ comp = <<curdir>> THEN norm_loop(Tail(comps), new_comps)
             ELSE IF comp # <<".", ".">>
                     \/ (new_comps # <<>> /\ new_comps[Len(new_comps)] = <<".", ".">>)
             THEN norm_loop(Tail(comps), Append(new_comps, comp))
             ELSE IF new_comps # <<>>
             THEN norm_loop(Tail(comps), SubSeq(new_comps, 1, Len(new_comps) - 1))
             ELSE norm_loop(Tail(comps), new_comps)

\* os.path.abspath of an absolute path: os.path.normpath, which keeps two
\* leading separators and makes one of three or more
abspath(path) ==
    LET initial_slashes ==
            IF startswith(path, <<sep, sep>>) /\ ~startswith(path, <<sep, sep, sep>>)
            THEN <<sep, sep>> ELSE <<sep>>
    IN  initial_slashes \o join(sep, norm_loop(split(path, sep), <<>>))

\* SearchInProjectResultsCommand.format_result: the path of the heading and
\* the (location, text) pairs under it
format_result(cp, filename, lines) ==
    [path |-> abspath(path_join(cp, filename)), lines |-> lines]

\* SearchInProjectResultsCommand.format_results: the counts of the heading
\* and the block of each file.  The order of the blocks is the order of the
\* dictionary's keys and is left out.
format_results(cp, res, query) ==
    LET filenames == {subscript(res[i], 0) : i \in 1..Len(res)}
        of_file(f) == SelectSeq(res, LAMBDA r : subscript(r, 0) = f)
        grouped_by_filename ==
            [f \in filenames |->
                [k \in 1..Len(of_file(f)) |->
                    <<subscript(of_file(f)[k], 1), subscript(of_file(f)[k], 2)>>]]
    IN  [query |-> query,
         line_count |-> Len(res),
         file_count |-> Cardinality(filenames),
         file_results |-> {format_result(cp, f, grouped_by_filename[f]) : f \in filenames}]

\* SearchInProjectCommand.list_in_view, and the search_in_project_results
\* command it runs in the new view
list_in_view(res, query, cp) ==
    listing' = [shown |-> TRUE, query |-> query, results |-> res,
                common_path |-> without_quotes(cp),
                report |-> format_results(without_quotes(cp), res, query)]

\* SearchInProjectCommand.open_and_highlight_file: self.results[file_no]
\* raises IndexError when file_no is past the end of the list
open_and_highlight_file(res, file_no, transient) ==
    /\ opened' = [called |-> TRUE, file_no |-> file_no, transient |-> transient]
    /\ escaped' = (escaped \/ file_no >= Len(res) \/ file_no < -Len(res))

\* the body of the try statement without the except clause: an exception
\* of the engine leaves perform_search
search_outcome_uncaught(r, text, cp, show_list, index) ==
    IF r.kind = "raise"
    THEN /\ escaped' = TRUE
         /\ UNCHANGED <<results, dialog, panel, listing>>
    ELSE IF r.value # <<>>
    THEN IF show_list
         THEN /\ results' = r.value
              /\ list_in_view(r.value, text, cp)
              /\ UNCHANGED <<panel, dialog, escaped>>
         ELSE /\ results' = Append(r.value, Placeholder)
              /\ panel' = [open |-> TRUE, items |-> Append(r.value, Placeholder),
                           selected |-> index]
              /\ UNCHANGED <<dialog, listing, escaped>>
    ELSE /\ results' = <<>>
         /\ dialog' = [kind |-> "message", exc |-> "", text |-> <<"No results">>]
         /\ UNCHANGED <<panel, listing, escaped>>

\* the body of the try statement and its except clause
search_outcome(r, text, cp, show_list, index) ==
    IF r.kind = "raise"
    THEN /\ results' = <<>>
         /\ dialog' = [kind |-> "error", exc |-> r.exc, text |-> error_text(r.exc, r.msg, engine)]
         /\ UNCHANGED <<panel, listing, escaped>>
    ELSE IF r.value # <<>>
    THEN IF show_list
         THEN /\ results' = r.value
              /\ list_in_view(r.value, text, cp)
              /\ UNCHANGED <<panel, dialog, escaped>>
         ELSE /\ results' = Append(r.value, Placeholder)
              /\ panel' = [open |-> TRUE, items |-> Append(r.value, Placeholder),
                           selected |-> index]
              /\ UNCHANGED <<dialog, listing, escaped>>
    ELSE /\ results' = <<>>
         /\ dialog' = [kind |-> "message", exc |-> "", text |-> <<"No results">>]
         /\ UNCHANGED <<panel, listing, escaped>>

\* SearchInProjectCommand.perform_search
perform_search(text, folders, proc, show_list) ==
    IF text = <<>> THEN UNCHANGED uiVars
    ELSE
      LET index == IF last_search_string # text THEN 0 ELSE last_selected_result_index
          cp    == commonpath(folders)
      IN  /\ last_selected_result_index' = index
          /\ last_search_string' = text
          /\ opened' = opened
          /\ IF cp.kind = "raise"
             THEN /\ escaped' = TRUE
                  /\ UNCHANGED <<results, common_path, panel, dialog, listing>>
             ELSE /\ common_path' = cp.value
                  /\ search_outcome(run(text, folders, proc, engine), text, cp.value,
                                    show_list, index)

\* SearchInProjectCommand.on_highlighted
on_highlighted(file_no) ==
    /\ last_selected_result_index' = file_no
    /\ IF file_no # -1 /\ file_no # Len(results) - 1
       THEN open_and_highlight_file(results, file_no, TRUE)
       ELSE UNCHANGED <<opened, escaped>>
    /\ UNCHANGED <<results, last_search_string, common_path, dialog, listing>>

\* SearchInProjectCommand.clear_markup
clear_markup == results' = <<>>

\* SearchInProjectCommand.goto_result
goto_result(file_no) ==
    IF file_no = -1
    THEN /\ clear_markup
         /\ UNCHANGED <<listing, opened, escaped>>
    ELSE IF file_no = Len(results) - 1
    THEN /\ list_in_view(results, last_search_string, common_path)
         /\ UNCHANGED <<results, opened, escaped>>
    ELSE /\ open_and_highlight_file(results, file_no, FALSE)
         /\ UNCHANGED <<results, listing>>

\* SearchInProjectCommand.goto_relative_result
goto_relative_result(offset) ==
    LET new_index == last_selected_result_index + offset
    IN  IF last_search_string # <<>> /\ 0 <= new_index /\ new_index < Len(results) - 1
        THEN /\ last_selected_result_index' = new_index
             /\ goto_result(new_index)
             /\ UNCHANGED <<last_search_string, common_path, panel, dialog>>
        ELSE UNCHANGED uiVars

(***************************************************************************)
(* Inputs.                                                                 *)
(***************************************************************************)
\* the strings over alphabet A of at most n characters
RECURSIVE strings(_, _)
strings(A, n) ==
    IF n = 0 THEN {<<>>}
    ELSE LET S == strings(A, n - 1)
         IN  S \cup {Append(t, c) : t \in {u \in S : Len(u) = n - 1}, c \in A}

\* the non-empty lists over S of at most n elements
lists(S, n) == UNION {[1..k -> S] : k \in 1..n}

\* the subsets of S of at most n elements
RECURSIVE subsets(_, _)
subsets(S, n) ==
    IF n = 0 THEN {{}}
    ELSE LET T == subsets(S, n - 1) IN T \cup {t \cup {x} : t \in T, x \in S}

\* a set as a list, in some order
RECURSIVE as_list(_)
as_list(S) ==
    IF S = {} THEN <<>> ELSE LET x == CHOOSE y \in S : TRUE IN <<x>> \o as_list(S \ {x})

\* the absolute paths of at most n components, each one of Names
paths(Names, n) == {<<sep>> \o join(sep, c) : c \in lists(Names, n) \cup {<<>>}}

\* absolute paths, normalized or not: "a" and "aa" are directories, "." is the
\* current directory
RawNames == {<<"a">>, <<"a", "a">>, <<".">>}
RawPaths == paths(RawNames, MaxDepth)

\* a folder as the editor's window.folders() supplies it: absolute, no empty,
\* "." or ".." component, no trailing separator (the root is "/")
is_editor_path(p) ==
    \/ p = <<sep>>
    \/ \A c \in {split(Tail(p), sep)[i] : i \in 1..Len(split(Tail(p), sep))} :
           c \notin {<<>>, <<".">>, <<".", ".">>}

\* "a." is a sibling of "a" that starts with its name and sorts between
\* "a" and what lies in "a"
EditorNames == {<<"a">>, <<"a", ".">>}
EditorPaths == paths(EditorNames, MaxDepth)

DefaultEngine ==
    [name |-> "ag", path_to_executable |-> <<"a", "g">>,
     mandatory_options |-> <<"-", "a">>, common_options |-> <<>>]

OptionChars == {" ", "\"", "a"}

Engines ==
    {[name |-> "ag", path_to_executable |-> <<"a", "g">>,
      mandatory_options |-> m, common_options |-> c] :
        m \in strings(OptionChars, MaxOptLen), c \in strings(OptionChars, MaxOptLen)}

\* the external tool's output: lines <file>:<location>:<text> and lines of
\* another shape
Files == {<<"/", "a">>, <<"/", "b">>}
Locations == {<<"1">>, <<"1", ":", "2">>}
Texts == {<<>>, <<" ", "x">>, <<"x", " ">>, <<"2", "x">>, <<"2", ":", "x">>}
OtherLines == {<<>>, <<"x">>, <<"/", "a", ":", "x">>}

format_line(l) == IF l.match THEN l.file \o <<":">> \o l.location \o <<":">> \o l.text
                  ELSE l.raw

ToolLines ==
    {[match |-> TRUE, file |-> f, location |-> l, text |-> t, raw |-> <<>>] :
        f \in Files, l \in Locations, t \in Texts}
    \cup {[match |-> FALSE, file |-> <<>>, location |-> <<>>, text |-> <<>>, raw |-> r] :
        r \in OtherLines}

\* what the tool writes: its lines, each ended by a newline or the last one not
tool_output(lines, final_newline) ==
    join("\n", [i \in 1..Len(lines) |-> format_line(lines[i])])
    \o (IF final_newline /\ lines # <<>> THEN <<"\n">> ELSE <<>>)

ToolErrors == {<<>>, <<" ", "#", "n", "o", "\n">>}

Procs ==
    {[launch |-> "ok", returncode |-> rc, lines |-> ls,
      output |-> tool_output(ls, nl), error |-> e] :
        rc \in {0, 1}, ls \in lists(ToolLines, MaxLines) \cup {<<>>},
        nl \in BOOLEAN, e \in ToolErrors}
    \cup {[launch |-> "oserror", returncode |-> 0, lines |-> <<>>,
           output |-> <<>>, error |-> <<>>]}

\* the i-th match line of a search made through the window command
ui_line(i) ==
    [match |-> TRUE, file |-> <<"/", "a">>, location |-> [j \in 1..i |-> "1"],
     text |-> <<"x">>, raw |-> <<>>]

UIProcs ==
    {[launch |-> "ok", returncode |-> 0, lines |-> [i \in 1..k |-> ui_line(i)],
      output |-> tool_output([i \in 1..k |-> ui_line(i)], TRUE), error |-> <<>>] :
        k \in 0..MaxResults}
    \cup {[launch |-> "ok", returncode |-> 1, lines |-> <<>>, output |-> <<>>,
           error |-> <<"n", "o", "\n">>],
          [launch |-> "ok", returncode |-> 0,
           lines |-> <<ui_line(1), [match |-> FALSE, file |-> <<>>, location |-> <<>>,
                                    text |-> <<>>, raw |-> <<"x">>]>>,
           output |-> tool_output(<<ui_line(1),
                                    [match |-> FALSE, file |-> <<>>, location |-> <<>>,
                                     text |-> <<>>, raw |-> <<"x">>]>>, TRUE),
           error |-> <<>>]}

UIQueries == {<<>>, <<"a">>, <<"b">>}
UIFolderLists == {<< <<"/", "a">> >>, << <<"/", "a", "/", "a">>, <<"/", "a", "/", "b">> >>}
OkProc == [launch |-> "ok", returncode |-> 0, lines |-> <<ui_line(1)>>,
           output |-> tool_output(<<ui_line(1)>>, TRUE), error |-> <<>>]

(***************************************************************************)
(* The window command in the editor.                                       *)
(***************************************************************************)
InitUI ==
    /\ results = <<>>
    /\ last_search_string = <<>>
    /\ last_selected_result_index = 0
    /\ common_path = <<>>
    /\ panel = ClosedPanel
    /\ dialog = NoDialog
    /\ listing = NoListing
    /\ opened = NotOpened
    /\ escaped = FALSE

Init ==
    /\ InitUI
    /\ engine = DefaultEngine
    /\ call = NoCall
    /\ ret = NoRet
    /\ pc = "ui"

\* run("search"), and the input panel's on_done: perform_search
RunSearch ==
    /\ pc = "ui"
    /\ ~panel.open
    /\ \E text \in UIQueries, folders \in UIFolderLists, proc \in UIProcs,
          show_list \in BOOLEAN :
           perform_search(text, folders, proc, show_list)
    /\ UNCHANGED <<engine, call, ret, pc>>

\* the quick panel's on_highlight callback
OnHighlighted ==
    /\ pc = "ui"
    /\ panel.open
    /\ \E file_no \in 0..(Len(panel.items) - 1) :
          /\ on_highlighted(file_no)
          /\ panel' = [panel EXCEPT !.selected = file_no]
    /\ UNCHANGED <<engine, call, ret, pc>>

\* the quick panel's on_select callback: an entry chosen, or -1 on cancel
GotoResult ==
    /\ pc = "ui"
    /\ panel.open
    /\ \E file_no \in -1..(Len(panel.items) - 1) : goto_result(file_no)
    /\ panel' = ClosedPanel
    /\ UNCHANGED <<last_search_string, last_selected_result_index, common_path, dialog>>
    /\ UNCHANGED <<engine, call, ret, pc>>

\* run("next")
RunNext ==
    /\ pc = "ui"
    /\ ~panel.open
    /\ goto_relative_result(1)
    /\ UNCHANGED <<engine, call, ret, pc>>

\* run("prev")
RunPrev ==
    /\ pc = "ui"
    /\ ~panel.open
    /\ goto_relative_result(-1)
    /\ UNCHANGED <<engine, call, ret, pc>>

\* run("clear")
RunClear ==
    /\ pc = "ui"
    /\ ~panel.open
    /\ clear_markup
    /\ UNCHANGED <<last_search_string, last_selected_result_index, common_path, panel,
                   dialog, listing, opened, escaped>>
    /\ UNCHANGED <<engine, call, ret, pc>>

Next == RunSearch \/ OnHighlighted \/ GotoResult \/ RunNext \/ RunPrev \/ RunClear

Spec == Init /\ [][Next]_vars

(***************************************************************************)
(* Direct calls of the engine's methods and of perform_search, on inputs   *)
(* drawn by the initial state.                                             *)
(***************************************************************************)
Call(fn, query, folders, proc, show_list) ==
    [fn |-> fn, query |-> query, folders |-> folders, proc |-> proc,
     show_list |-> show_list]

CallCommonpath ==
    /\ pc = "call" /\ call.fn = "commonpath"
    /\ ret' = commonpath(call.folders)
    /\ pc' = "done"
    /\ UNCHANGED <<uiVars, engine, call>>

CallRemoveSubfolders ==
    /\ pc = "call" /\ call.fn = "_remove_subfolders"
    /\ ret' = Ok(_remove_subfolders(call.folders))
    /\ pc' = "done"
    /\ UNCHANGED <<uiVars, engine, call>>

CallArguments ==
    /\ pc = "call" /\ call.fn = "_arguments"
    /\ ret' = _arguments(call.query, call.folders, engine)
    /\ pc' = "done"
    /\ UNCHANGED <<uiVars, engine, call>>

CallRun ==
    /\ pc = "call" /\ call.fn = "run"
    /\ ret' = run(call.query, call.folders, call.proc, engine)
    /\ pc' = "done"
    /\ UNCHANGED <<uiVars, engine, call>>

CallPerformSearch ==
    /\ pc = "call" /\ call.fn = "perform_search"
    /\ perform_search(call.query, call.folders, call.proc, call.show_list)
    /\ ret' = run(call.query, call.folders, call.proc, engine)
    /\ pc' = "done"
    /\ UNCHANGED <<engine, call>>

\* commonpath on arbitrary absolute paths.  commonpath reads its argument
\* through set(), min() and max() only, so the paths are drawn as a set and
\* given in one order.
InitCommon ==
    /\ InitUI /\ engine = DefaultEngine /\ ret = NoRet /\ pc = "call"
    /\ call \in {Call("commonpath", <<>>, as_list(f), OkProc, FALSE) :
                    f \in subsets(RawPaths, MaxFolders)}

SpecCommon == InitCommon /\ [][CallCommonpath]_vars

\* the folders of a search, through _remove_subfolders and through run
InitPaths ==
    /\ InitUI /\ engine = DefaultEngine /\ ret = NoRet /\ pc = "call"
    /\ call \in {Call(fn, <<"a">>, f, OkProc, FALSE) :
                    fn \in {"_remove_subfolders", "run"},
                    f \in lists(EditorPaths, MaxFolders)}

NextPaths == CallRemoveSubfolders \/ CallRun

SpecPaths == InitPaths /\ [][NextPaths]_vars

\* the argument list
InitArgs ==
    /\ InitUI /\ ret = NoRet /\ pc = "call"
    /\ engine \in Engines
    /\ call \in {Call("_arguments", q, << <<"/", "a">>, <<"/", "b">> >>, OkProc, FALSE) :
                    q \in strings(OptionChars, MaxOptLen)}

SpecArgs == InitArgs /\ [][CallArguments]_vars

\* one search on each output the external tool can give
InitRun ==
    /\ InitUI /\ engine = DefaultEngine /\ ret = NoRet /\ pc = "call"
    /\ call \in {Call(fn, <<"a">>, << <<"/", "a">> >>, p, FALSE) :
                    fn \in {"run", "perform_search"}, p \in Procs}

NextRun == CallRun \/ CallPerformSearch

SpecRun == InitRun /\ [][NextRun]_vars

(***************************************************************************)
(* Properties.  Notions the claims use, defined apart from the code.       *)
(***************************************************************************)
\* the components of a path: what lies between separators, without the
\* empty ones and the "." ones
RECURSIVE components_from(_, _, _)
components_from(p, i, cur) ==
    LET done == IF cur = <<>> \/ cur = <<".">> THEN <<>> ELSE <<cur>>
    IN  IF i > Len(p) THEN done
        ELSE IF p[i] = "/" THEN done \o components_from(p, i + 1, <<>>)
        ELSE components_from(p, i + 1, Append(cur, p[i]))

components(p) == components_from(p, 1, <<>>)

is_prefix(a, b) == Len(a) <= Len(b) /\ \A i \in 1..Len(a) : a[i] = b[i]

\* p lies in q (or is q), component by component
sub_path(p, q) == is_prefix(components(q), components(p))

elements(q) == {q[i] : i \in 1..Len(q)}

Done(fn) == pc = "done" /\ call.fn = fn

(* C1: a search whose external tool ends with a non-zero exit code ends in
   an engine error whose message is the decoded, trimmed stderr text of the
   tool; it never returns match records or the no-results outcome. *)
C1_NonZeroExitIsToolError ==
    (Done("perform_search") /\ call.proc.launch = "ok" /\ call.proc.returncode # 0)
    => /\ ret.kind = "raise"
       /\ ret.msg = _sanitize_output(call.proc.error)
       /\ results = <<>>
       /\ dialog.kind = "error"
       /\ dialog.text = error_text("RuntimeError", _sanitize_output(call.proc.error), engine)

(* C2: a search whose external tool ends with exit code 0 and empty stdout
   ends in the no-results outcome (empty result list, 'No results'
   reported), not in an error. *)
C2_EmptyOutputIsNoResults ==
    (Done("perform_search") /\ call.proc.launch = "ok" /\ call.proc.returncode = 0
        /\ call.proc.output = <<>>)
    => /\ results = <<>>
       /\ dialog.kind = "message"
       /\ dialog.text = <<"No results">>

(* C3: for every non-empty sequence of absolute paths, commonpath returns an
   absolute path whose components are a prefix of every input's components
   and that no further component extends while staying such a prefix; for a
   single input it returns that path itself (in normalized form), not its
   parent. *)
C3_CommonpathLongestPrefix ==
    (Done("commonpath") /\ call.folders # <<>>)
    => /\ ret.kind = "ok"
       /\ LET c   == components(ret.value)
              ins == {components(f) : f \in elements(call.folders)}
          IN  /\ ret.value[1] = "/"
              /\ ret.value = <<"/">> \/ split(Tail(ret.value), "/") = c
              /\ \A s \in ins : is_prefix(c, s)
              /\ \/ \E s \in ins : Len(s) = Len(c)
                 \/ \E s, t \in ins : s[Len(c) + 1] # t[Len(c) + 1]
              /\ Len(call.folders) = 1 =>
                    /\ c = components(call.folders[1])
                    /\ is_editor_path(call.folders[1]) => ret.value = call.folders[1]

\* three different inputs, one of them not normalized, one strictly below
\* the common path, which is not the root
C3_Witness ==
    /\ Done("commonpath")
    /\ Len(call.folders) = 3
    /\ Cardinality(elements(call.folders)) = 3
    /\ \E f \in elements(call.folders) : ~is_editor_path(f)
    /\ \E f \in elements(call.folders) : Len(components(f)) > Len(components(ret.value))
    /\ ret.kind = "ok" /\ ret.value = <<"/", "a">>

(* C4: _remove_subfolders drops a root only when it is a sub-path of another
   root on component boundaries, not on a raw string prefix: every input root
   that is not a component-wise sub-path of another input root is in the
   output, and the output is in lexicographic order. *)
C4_DropsOnlySubPaths ==
    Done("_remove_subfolders")
    => /\ \A f \in elements(call.folders) :
            (\A g \in elements(call.folders) : g # f => ~sub_path(f, g))
            => f \in elements(ret.value)
       /\ \A i \in 1..(Len(ret.value) - 1) : ~str_lt(ret.value[i + 1], ret.value[i])

(* C5: for every set of absolute roots (as the editor supplies them), the
   output of _remove_subfolders holds no two members one of which is a
   sub-path of the other, although each root is compared only with the most
   recently kept one. *)
C5_NoNestedRootsKept ==
    Done("_remove_subfolders")
    => \A i, j \in 1..Len(ret.value) : i # j => ~sub_path(ret.value[i], ret.value[j])

\* three different roots, given with a descendant before its ancestor, of
\* which two are kept
C5_Witness ==
    /\ Done("_remove_subfolders")
    /\ Len(call.folders) = 3
    /\ Cardinality(elements(call.folders)) = 3
    /\ \E i, j \in 1..3 : i < j /\ sub_path(call.folders[i], call.folders[j])
    /\ <<"/">> \notin elements(call.folders)
    /\ Len(ret.value) = 2

(* C6: _arguments returns, in this order, the executable path, the tokens of
   the mandatory options, the tokens of the common options, the query as
   exactly one argument whatever whitespace or quotes it holds, then each
   folder as its own argument; nothing else. *)
C6_ArgumentsOrder ==
    (Done("_arguments") /\ ret.kind = "ok")
    => LET argv == ret.value
           m    == shlex_split(engine.mandatory_options).value
           c    == shlex_split(engine.common_options).value
           q    == 1 + Len(m) + Len(c) + 1
       IN  /\ Len(argv) = q + Len(call.folders)
           /\ argv[1] = engine.path_to_executable
           /\ \A i \in 1..Len(m) : argv[1 + i] = m[i]
           /\ \A i \in 1..Len(c) : argv[1 + Len(m) + i] = c[i]
           /\ argv[q] = call.query
           /\ \A i \in 1..Len(call.folders) : argv[q + i] = call.folders[i]

\* two mandatory tokens, a common token, a query with a space and a quote
C6_Witness ==
    /\ Done("_arguments") /\ ret.kind = "ok"
    /\ engine.mandatory_options = <<"a", " ", "a">>
    /\ engine.common_options = <<"\"", "a", "\"">>
    /\ call.query = <<"a", " ", "\"">>
    /\ Len(call.folders) = 2
    /\ Len(ret.value) = 7

\* some line of the output as it reaches the parser does not match the pattern
has_unparsable_line(output) ==
    \E l \in elements(split(_sanitize_output(output), "\n")) : findall(l) = <<>>

(* C7: when the tool's output holds a line that does not match the line
   format, the search ends in a reported failure with an empty result set
   (whichever line it is and whatever it holds); the line never makes an
   exception leave the search call. *)
C7_UnparsableLineIsReportedFailure ==
    (Done("perform_search") /\ call.proc.launch = "ok" /\ has_unparsable_line(call.proc.output))
    => /\ ~escaped
       /\ results = <<>>
       /\ dialog.kind = "error"
       /\ ~panel.open
       /\ ~listing.shown

\* a well-formed line followed by a line "x"
C7_Witness ==
    /\ Done("perform_search")
    /\ call.proc.returncode = 0
    /\ Len(call.proc.lines) = 2
    /\ call.proc.lines[1].match
    /\ ~call.proc.lines[2].match /\ call.proc.lines[2].raw = <<"x">>
    /\ dialog.kind = "error" /\ results = <<>>

\* the tool ran, ended with exit code 0 and wrote well-formed lines only
well_formed_output ==
    /\ call.proc.launch = "ok" /\ call.proc.returncode = 0
    /\ call.proc.lines # <<>>
    /\ \A i \in 1..Len(call.proc.lines) : call.proc.lines[i].match

(* C8, as claimed: for tool output made only of well-formed lines
   <file>:<location>:<text>, parse returns exactly one record per line, in
   the tool's order, each the (file, location, text) of its line. *)
C8_RecordsAreTheLines ==
    (Done("run") /\ well_formed_output)
    => /\ ret.kind = "ok"
       /\ ret.value = [i \in 1..Len(call.proc.lines) |->
                          <<call.proc.lines[i].file, call.proc.lines[i].location,
                            call.proc.lines[i].text>>]

\* the digits and colons a text starts with hold a colon
RECURSIVE starts_with_numeric_field(_)
starts_with_numeric_field(t) ==
    /\ t # <<>>
    /\ \/ t[1] = ":"
       \/ t[1] \in {"1", "2"} /\ starts_with_numeric_field(Tail(t))

\* the text of line i as it reaches the parser: the output is trimmed, so
\* the last line is without its trailing whitespace
RECURSIVE without_trailing_space(_)
without_trailing_space(t) ==
    IF t # <<>> /\ t[Len(t)] \in {" ", "\n"}
    THEN without_trailing_space(SubSeq(t, 1, Len(t) - 1)) ELSE t

text_parsed(i) ==
    IF i = Len(call.proc.lines) THEN without_trailing_space(call.proc.lines[i].text)
    ELSE call.proc.lines[i].text

(* C8, amended: one record per line, in the tool's order; its file is the
   line's file; its location and text are the line's location and text (the
   last line's text without trailing whitespace) unless the text starts with
   digits and a colon: the location is the longest run of colon-separated
   numeric fields, so those fields of the text are part of the location. *)
C8_RecordsSplitAtLongestLocation ==
    (Done("run") /\ well_formed_output)
    => /\ ret.kind = "ok"
       /\ Len(ret.value) = Len(call.proc.lines)
       /\ \A i \in 1..Len(call.proc.lines) :
            LET l == call.proc.lines[i]
                r == ret.value[i]
            IN  /\ Len(r) = 3
                /\ r[1] = l.file
                /\ r[2] \o <<":">> \o r[3] = l.location \o <<":">> \o text_parsed(i)
                /\ is_prefix(l.location, r[2])
                /\ ~starts_with_numeric_field(r[3])
                /\ ~starts_with_numeric_field(text_parsed(i))
                     => r[2] = l.location /\ r[3] = text_parsed(i)

\* two lines of different files, the first with line and column
C8_Witness ==
    /\ Done("run") /\ well_formed_output
    /\ Len(call.proc.lines) = 2
    /\ call.proc.lines[1].file = <<"/", "b">> /\ call.proc.lines[2].file = <<"/", "a">>
    /\ call.proc.lines[1].location = <<"1", ":", "2">>
    /\ call.proc.lines[1].text = <<" ", "x">>
    /\ ret.kind = "ok"
    /\ ret.value[1] = << <<"/", "b">>, <<"1", ":", "2">>, <<" ", "x">> >>
    /\ ret.value[2][1] = <<"/", "a">>

(* C9: whenever the results list is non-empty, last_selected_result_index is
   the index of a match record of that list (at least 0, and below the
   trailing 'List results in view' entry). *)
C9_SelectedIndexIsAMatch ==
    results # <<>>
    => /\ 0 <= last_selected_result_index
       /\ last_selected_result_index < Len(results)
       /\ results[last_selected_result_index + 1] # Placeholder

\* the folders at the end of the argument list given to the process
argv_folders ==
    SubSeq(ret.popen.argv,
           Len(ret.popen.argv) - Len(_remove_subfolders(call.folders)) + 1,
           Len(ret.popen.argv))

(* C10: in run, the working directory given to the external process is the
   common path of the folders passed in argv:
   commonpath(_remove_subfolders(folders)) = commonpath(folders). *)
C10_CwdIsCommonPathOfArgvFolders ==
    (Done("run") /\ ret.popen.spawned)
    => /\ argv_folders = _remove_subfolders(call.folders)
       /\ ret.popen.cwd = commonpath(argv_folders).value

\* the match records of a results list: what is left without the entry
\* appended for the quick panel
matches_of(res) == SelectSeq(res, LAMBDA r : r # Placeholder)

(* C11: whichever way the results listing was opened, the list handed to the
   results view holds match records only, never the 'List results in view'
   entry: the reported line count is the number of match records and every
   listed file is the file of some match record. *)
C11_ListingHoldsMatchRecordsOnly ==
    listing.shown
    => /\ listing.results = matches_of(listing.results)
       /\ listing.report.line_count = Len(matches_of(listing.results))
       /\ \A fr \in listing.report.file_results :
              \E r \in elements(matches_of(listing.results)) : fr.path = r[1]
====
